---- MODULE Spec2Model ----
(***************************************************************************)
(* BIBS, the belief-induced behaviour simulation: a model of BIBS::Agent   *)
(* (src/src/agent.cpp, src/include/bibs/agent.hpp).                        *)
(*                                                                         *)
(* Numbers.  The code computes in double.  The model computes in signed    *)
(* fixed point: the integer v stands for the real v / Scale, products are  *)
(* rounded down to a multiple of 1/Scale and every result saturates at     *)
(* +-MaxReal (a double overflows to +-inf in the same places).  NaN is not *)
(* modelled.                                                               *)
(*                                                                         *)
(* Exceptions.  std::map::at throws std::out_of_range.  Every operator f   *)
(* that can throw comes with a predicate fOk that holds exactly when the   *)
(* call returns; f itself is only evaluated where fOk holds.               *)
(***************************************************************************)
EXTENDS Integers, Sequences, FiniteSets, TLC

VARIABLES
  activationMap,  \* Agent::activationMap : agent -> (time -> (belief -> double))
  performedMap,   \* Agent::performedMap  : agent -> (time -> behaviour)
  friends,        \* Agent::friends       : agent -> (agent -> double)
  timeDeltaMap,   \* Agent::timeDeltaMap  : agent -> (belief -> double)
  beliefRel,      \* Belief: belief -> (belief    -> double)
  obsRel,         \* Belief: belief -> (behaviour -> double)
  perfRel,        \* Belief: belief -> (behaviour -> double)
  last,           \* the call that was made last, and how it ended
  ncalls,         \* number of direct calls made so far
  tk,             \* per agent: the tick in progress (position in IAgent::tick)
  sync            \* the driver has kept the barrier between time steps so far

vars == <<activationMap, performedMap, friends, timeDeltaMap, beliefRel,
          obsRel, perfRel, last, ncalls, tk, sync>>

(***************************************************************************)
(* Bounds                                                                  *)
(***************************************************************************)
Scale == 100      \* fixed-point unit: v stands for v / Scale
MaxT == 1         \* times are 0 .. MaxT
MaxCand == 3      \* longest candidate list given to perform
MaxCalls == 1     \* direct calls in one run of Spec

MaxReal == 400 * Scale

Agents == {"a1", "a2"}
Beliefs == {"b1", "b2"}
Behaviours == {"h1", "h2", "h3"}
Times == 0 .. MaxT

\* std::map iterates in key order; the keys are pointers, whose order is fixed.
AgentOrder == <<"a1", "a2">>
BeliefOrder == <<"b1", "b2">>

nullptr == "nullptr"

(***************************************************************************)
(* std::map                                                                *)
(***************************************************************************)
EmptyMap == [k \in {} |-> 0]

\* std::map::insert_or_assign, and operator[] followed by an assignment
insert_or_assign(m, k, v) == [x \in DOMAIN m \cup {k} |-> IF x = k THEN v ELSE m[x]]

\* std::map::emplace: inserts only when the key is absent
emplace(m, k, v) == IF k \in DOMAIN m THEN m ELSE insert_or_assign(m, k, v)

(***************************************************************************)
(* double, in fixed point                                                  *)
(***************************************************************************)
Sat(x) == IF x > MaxReal THEN MaxReal ELSE IF x < -MaxReal THEN -MaxReal ELSE x

Add(x, y) == Sat(x + y)

Mul(x, y) == Sat((x * y) \div Scale)

\* e = ENum / EDen to three decimals
ENum == 2718
EDen == 1000

\* e^(r/Scale) for 0 <= r < Scale: the Taylor series, term k being
\* term (k-1) * r / k, summed until the terms vanish.
RECURSIVE ExpSeries(_, _, _)
ExpSeries(r, k, term) ==
  IF term = 0 THEN 0
  ELSE term + ExpSeries(r, k + 1, (term * r) \div (k * Scale))

\* v * e^q for an integer q
RECURSIVE ExpScale(_, _)
ExpScale(v, q) ==
  IF q = 0 \/ v = 0 \/ v >= MaxReal THEN Sat(v)
  ELSE IF q > 0 THEN ExpScale(Sat((v * ENum) \div EDen), q - 1)
  ELSE ExpScale((v * EDen) \div ENum, q + 1)

\* std::exp: range reduction x = q + r/Scale, then e^q * e^(r/Scale)
Exp(x) == ExpScale(ExpSeries(x % Scale, 1, Scale), x \div Scale)

(***************************************************************************)
(* Belief (the class is not part of the sources at hand; its three tables  *)
(* are read through at(), as src/test/belief.cpp expects)                  *)
(***************************************************************************)
beliefRelationshipOk(b, b2) == b2 \in DOMAIN beliefRel[b]
beliefRelationship(b, b2) == beliefRel[b][b2]

observedBehaviourRelationshipOk(b, beh) == beh \in DOMAIN obsRel[b]
observedBehaviourRelationship(b, beh) == obsRel[b][beh]

performingBehaviourRelationshipOk(b, beh) == beh \in DOMAIN perfRel[b]
performingBehaviourRelationship(b, beh) == perfRel[b][beh]

(***************************************************************************)
(* Agent: the lookups                                                      *)
(***************************************************************************)
\* activationMap.at(t).at(b)
activationOk(a, t, b) ==
  /\ t \in DOMAIN activationMap[a]
  /\ b \in DOMAIN activationMap[a][t]
activation(a, t, b) == activationMap[a][t][b]

\* performedMap.at(t)
performedOk(a, t) == t \in DOMAIN performedMap[a]
performed(a, t) == performedMap[a][t]

\* friends.at(a2)
friendWeightOk(a, a2) == a2 \in DOMAIN friends[a]
friendWeight(a, a2) == friends[a][a2]

\* timeDeltaMap.at(b)
timeDeltaOk(a, b) == b \in DOMAIN timeDeltaMap[a]
timeDelta(a, b) == timeDeltaMap[a][b]

\* activationMap.at(t), the keys of the sub-record
heldBeliefsOk(a, t) == t \in DOMAIN activationMap[a]
heldBeliefs(a, t) == DOMAIN activationMap[a][t]

(***************************************************************************)
(* Agent: the activation engine                                            *)
(***************************************************************************)
\* for (a2, w) in friends: ret_value += w * b->observedBehaviourRelationship(a2->performed(t))
\* a2->performed(t) throws for some friend a2
performedMissing(a, t) == \E a2 \in DOMAIN friends[a] : ~ performedOk(a2, t)

observedOk(a, b, t) ==
  /\ ~ performedMissing(a, t)
  /\ \A a2 \in DOMAIN friends[a] :
       observedBehaviourRelationshipOk(b, performed(a2, t))

RECURSIVE observedLoop(_, _, _, _, _)
observedLoop(a, b, t, i, ret_value) ==
  IF i > Len(AgentOrder) THEN ret_value
  ELSE LET a2 == AgentOrder[i] IN
       IF a2 \in DOMAIN friends[a]
       THEN observedLoop(a, b, t, i + 1,
              Add(ret_value,
                  Mul(friends[a][a2],
                      observedBehaviourRelationship(b, performed(a2, t)))))
       ELSE observedLoop(a, b, t, i + 1, ret_value)

observed(a, b, t) == observedLoop(a, b, t, 1, 0)

\* for b2 in heldBeliefs(t): value_to_exp += activation(t, b2) * b->beliefRelationship(b2)
contextualiseOk(a, b, t) ==
  /\ heldBeliefsOk(a, t)
  /\ \A b2 \in heldBeliefs(a, t) : beliefRelationshipOk(b, b2)

\* Mutant: the sum runs over the beliefs already stored for the next time
\* (the ones updated so far in the current step), not over those held at t
RECURSIVE contextualiseLoop_updated(_, _, _, _, _)
contextualiseLoop_updated(a, b, t, i, value_to_exp) ==
  IF i > Len(BeliefOrder) THEN value_to_exp
  ELSE LET b2 == BeliefOrder[i] IN
       IF /\ b2 \in heldBeliefs(a, t)
          /\ (t + 1 \in DOMAIN activationMap[a] => b2 \in heldBeliefs(a, t + 1))
       THEN contextualiseLoop_updated(a, b, t, i + 1,
              Add(value_to_exp,
                  Mul(activation(a, t, b2), beliefRelationship(b, b2))))
       ELSE contextualiseLoop_updated(a, b, t, i + 1, value_to_exp)

RECURSIVE contextualiseLoop(_, _, _, _, _)
contextualiseLoop(a, b, t, i, value_to_exp) ==
  IF i > Len(BeliefOrder) THEN value_to_exp
  ELSE LET b2 == BeliefOrder[i] IN
       IF b2 \in heldBeliefs(a, t)
       THEN contextualiseLoop(a, b, t, i + 1,
              Add(value_to_exp,
                  Mul(activation(a, t, b2), beliefRelationship(b, b2))))
       ELSE contextualiseLoop(a, b, t, i + 1, value_to_exp)

contextualise(a, b, t) == Exp(contextualiseLoop(a, b, t, 1, 0))

contextualObservedOk(a, b, t) == contextualiseOk(a, b, t) /\ observedOk(a, b, t)
contextualObserved(a, b, t) == Mul(contextualise(a, b, t), observed(a, b, t))

\* Mutant: the update reads the records of time t, not of t - 1
previous_same(t) == t

\* the time whose records updateActivation(t, b) reads
previous(t) == t - 1

\* the value updateActivation computes before it touches the record
newActivationOk(a, t, b) ==
  /\ timeDeltaOk(a, b)
  /\ activationOk(a, previous(t), b)
  /\ contextualObservedOk(a, b, previous(t))

newActivation(a, t, b) ==
  Add(Mul(timeDelta(a, b), activation(a, previous(t), b)),
      contextualObserved(a, b, previous(t)))

\* Mutant: the sub-record of t is made anew on every call, not only when
\* it is missing
emplaceActivation_fresh(m, t, b, v) == insert_or_assign(m, t, emplace(EmptyMap, b, v))

\* the sub-record of t once the computed value is emplaced; a missing
\* sub-record is created empty first (the catch branch)
emplaceActivation(m, t, b, v) ==
  IF t \in DOMAIN m
  THEN [m EXCEPT ![t] = emplace(m[t], b, v)]
  ELSE insert_or_assign(m, t, emplace(EmptyMap, b, v))

\* Mutant: the sub-record of t is created before the value is computed
updateActivation_recordFirst(a, t, b) ==
  IF newActivationOk(a, t, b)
  THEN emplaceActivation(activationMap[a], t, b, newActivation(a, t, b))
  ELSE emplace(activationMap[a], t, EmptyMap)

\* Agent::updateActivation: does it return, and the agent's record after it
updateActivationOk(a, t, b) == newActivationOk(a, t, b)

updateActivation(a, t, b) ==
  IF updateActivationOk(a, t, b)
  THEN emplaceActivation(activationMap[a], t, b, newActivation(a, t, b))
  ELSE activationMap[a]

(***************************************************************************)
(* Agent: utility and selection                                            *)
(***************************************************************************)
\* bel->performingBehaviourRelationship(beh) * activation(t, bel)
beliefBehaviourOk(a, bel, beh, t) ==
  /\ performingBehaviourRelationshipOk(bel, beh)
  /\ activationOk(a, t, bel)
beliefBehaviour(a, bel, beh, t) ==
  Mul(performingBehaviourRelationship(bel, beh), activation(a, t, bel))

contextualBeliefBehaviourOk(a, bel, beh, t) ==
  contextualiseOk(a, bel, t) /\ beliefBehaviourOk(a, bel, beh, t)
contextualBeliefBehaviour(a, bel, beh, t) ==
  Mul(contextualise(a, bel, t), beliefBehaviour(a, bel, beh, t))

\* for (belief, _) in activationMap.at(t): returnVal += contextualBeliefBehaviour(belief, b, t)
contextualBehaviourOk(a, beh, t) ==
  /\ t \in DOMAIN activationMap[a]
  /\ \A bel \in DOMAIN activationMap[a][t] : contextualBeliefBehaviourOk(a, bel, beh, t)

RECURSIVE contextualBehaviourLoop(_, _, _, _, _)
contextualBehaviourLoop(a, beh, t, i, returnVal) ==
  IF i > Len(BeliefOrder) THEN returnVal
  ELSE LET bel == BeliefOrder[i] IN
       IF bel \in DOMAIN activationMap[a][t]
       THEN contextualBehaviourLoop(a, beh, t, i + 1,
              Add(returnVal, contextualBeliefBehaviour(a, bel, beh, t)))
       ELSE contextualBehaviourLoop(a, beh, t, i + 1, returnVal)

contextualBehaviour(a, beh, t) == contextualBehaviourLoop(a, beh, t, 1, 0)

environment(a, beh, t) == 0

utilityOk(a, beh, t) == contextualBehaviourOk(a, beh, t)
utility(a, beh, t) == Add(contextualBehaviour(a, beh, t), environment(a, beh, t))

\* std::numeric_limits<double>::lowest(): below every value a utility takes
lowest == -MaxReal - 1

\* Mutant: the maximum is tracked with >=, so the last-seen behaviour wins ties
RECURSIVE performLoop_lastWins(_, _, _, _, _, _, _)
performLoop_lastWins(a, t, bs, i, maxUtility, maxBehaviour, positiveBehaviours) ==
  IF i > Len(bs)
  THEN [maxBehaviour |-> maxBehaviour, positiveBehaviours |-> positiveBehaviours]
  ELSE LET ut == utility(a, bs[i], t) IN
       performLoop_lastWins(a, t, bs, i + 1,
         IF ut >= maxUtility THEN ut ELSE maxUtility,
         IF ut >= maxUtility THEN bs[i] ELSE maxBehaviour,
         IF ut > 0 THEN Append(positiveBehaviours, bs[i]) ELSE positiveBehaviours)

\* the loop of perform over bs[i..]: the maximum so far and the candidates
\* of positive utility so far (positiveUtilities are their utilities)
RECURSIVE performLoop(_, _, _, _, _, _, _)
performLoop(a, t, bs, i, maxUtility, maxBehaviour, positiveBehaviours) ==
  IF i > Len(bs)
  THEN [maxBehaviour |-> maxBehaviour, positiveBehaviours |-> positiveBehaviours]
  ELSE LET ut == utility(a, bs[i], t) IN
       performLoop(a, t, bs, i + 1,
         IF ut > maxUtility THEN ut ELSE maxUtility,
         IF ut > maxUtility THEN bs[i] ELSE maxBehaviour,
         IF ut > 0 THEN Append(positiveBehaviours, bs[i]) ELSE positiveBehaviours)

\* Agent::perform: does it return (every utility is computed before anything
\* is recorded), and the behaviours it may record
performOk(a, t, bs) == \A i \in 1 .. Len(bs) : utilityOk(a, bs[i], t)

\* Mutant: the drawn index is used on the candidate list, not on the
\* positive-utility subset
performChoice_indexCandidates(a, t, bs) ==
  LET r == performLoop(a, t, bs, 1, lowest, nullptr, << >>) IN
  IF Len(r.positiveBehaviours) <= 1
  THEN {r.maxBehaviour}
  ELSE {bs[k] : k \in 1 .. Len(r.positiveBehaviours)}

performChoice(a, t, bs) ==
  LET r == performLoop(a, t, bs, 1, lowest, nullptr, << >>) IN
  IF Len(r.positiveBehaviours) <= 1
  THEN {r.maxBehaviour}
  ELSE \* std::discrete_distribution over weights that are all > 0
       {r.positiveBehaviours[k] : k \in 1 .. Len(r.positiveBehaviours)}

\* Mutant: the chosen behaviour is inserted with emplace, which keeps a
\* behaviour recorded before
perform_emplace(a, t, beh) == emplace(performedMap[a], t, beh)

\* the agent's performed record once perform has chosen beh: performedMap[t] = beh
perform(a, t, beh) == insert_or_assign(performedMap[a], t, beh)

\* Mutant: the loop records each candidate as soon as its utility is known
performThrown_partial(a, t, bs) ==
  IF Len(bs) > 0 /\ utilityOk(a, bs[1], t)
  THEN insert_or_assign(performedMap[a], t, bs[1])
  ELSE performedMap[a]

\* Mutant: a missing sub-record of t is read as an empty one, so that every
\* utility is 0 and the first candidate is recorded
performThrown_emptyRecord(a, t, bs) ==
  IF Len(bs) > 0 /\ t \notin DOMAIN activationMap[a]
  THEN insert_or_assign(performedMap[a], t, bs[1])
  ELSE performedMap[a]

\* the agent's performed record when a utility of the loop throws: the loop
\* records nothing, the assignments come after it
performThrown(a, t, bs) == performedMap[a]

(***************************************************************************)
(* Initial states: two agents, friends of one another, constructed with an *)
(* activation record and set up through the setters.  A scenario leaves    *)
(* out at most one entry (hole) so that each lookup can fail, and picks    *)
(* the performing weights of b1 (profile) so that the utilities of the     *)
(* three behaviours are of every sign pattern.                             *)
(***************************************************************************)
Holes == {"none", "timeDelta", "activation", "performed",
          "observedRel", "beliefRel", "performingRel"}
Profiles == {"two", "tie", "one", "neg", "zero"}

Without(m, k) == [x \in DOMAIN m \ {k} |-> m[x]]

Half == Scale \div 2

ProfileRow(profile) ==
  CASE profile = "two"  -> [h1 |-> 2 * Scale, h2 |-> Scale, h3 |-> -Scale]
    [] profile = "tie"  -> [h1 |-> Scale, h2 |-> Scale, h3 |-> -Scale]
    [] profile = "one"  -> [h1 |-> -Scale, h2 |-> Scale, h3 |-> -Scale]
    [] profile = "neg"  -> [h1 |-> -2 * Scale, h2 |-> -Scale, h3 |-> -Scale]
    [] profile = "zero" -> [h1 |-> -Scale, h2 |-> 0, h3 |-> 0]

\* the record handed to the constructor Agent(activationMap); with stored,
\* agent a1 is also given a value for (1, b1)
InitActivation(hole, stored) ==
  LET a1at0 == [b1 |-> Scale, b2 |-> Half]
      a1rec == (0 :> (IF hole = "activation" THEN Without(a1at0, "b2") ELSE a1at0))
      a1 == IF stored THEN insert_or_assign(a1rec, 1, [b1 |-> 5 * Scale]) ELSE a1rec
  IN [a \in Agents |-> IF a = "a1" THEN a1 ELSE (0 :> [b1 |-> Scale, b2 |-> -Scale])]

InitFriends == [a \in Agents |-> IF a = "a1" THEN [a2 |-> Scale] ELSE [a1 |-> Half]]

InitTimeDelta(hole) ==
  LET td == [b1 |-> Half, b2 |-> Scale] IN
  [a \in Agents |-> IF a = "a1" /\ hole = "timeDelta" THEN Without(td, "b2") ELSE td]

InitBeliefRel(hole) ==
  [b \in Beliefs |->
     IF b = "b1" THEN [b1 |-> Half, b2 |-> Scale]
     ELSE IF hole = "beliefRel" THEN [b2 |-> 0] ELSE [b1 |-> -Scale, b2 |-> 0]]

InitObsRel(hole) ==
  [b \in Beliefs |->
     IF b = "b1" THEN [h1 |-> Scale, h2 |-> -Scale, h3 |-> 0]
     ELSE IF hole = "observedRel" THEN [h2 |-> Scale, h3 |-> -Scale]
     ELSE [h1 |-> Half, h2 |-> Scale, h3 |-> -Scale]]

InitPerfRel(hole, profile) ==
  [b \in Beliefs |->
     IF b = "b1" THEN ProfileRow(profile)
     ELSE IF hole = "performingRel" THEN [h1 |-> 0, h2 |-> 0]
     ELSE [h1 |-> 0, h2 |-> 0, h3 |-> 0]]

\* last: the call (op, a, t, b or bs), how it ended (out) and the record of
\* agent a it may write as it was before the call (old)
NoCall == [op |-> "none", a |-> "a1", t |-> 0, b |-> "b1", bs |-> << >>,
           out |-> "ok", old |-> EmptyMap]

\* tk[a]: where agent a is in its call of tick (pc), the arguments of the
\* call (t, behs, bels), the index of the belief to update next (i), the
\* number of updates that returned (nok), the phase that threw (where),
\* whether the update threw while a friend had no behaviour at t - 1
\* (missed), and the agent's records as they were when the call began
Idle == [pc |-> "idle", t |-> -1, behs |-> << >>, bels |-> << >>, i |-> 0,
         nok |-> 0, where |-> "none", missed |-> FALSE,
         preAct |-> EmptyMap, prePerf |-> EmptyMap]

Setup(hole, profile, stored) ==
  /\ activationMap = InitActivation(hole, stored)
  /\ friends = InitFriends
  /\ timeDeltaMap = InitTimeDelta(hole)
  /\ beliefRel = InitBeliefRel(hole)
  /\ obsRel = InitObsRel(hole)
  /\ perfRel = InitPerfRel(hole, profile)
  /\ last = NoCall
  /\ ncalls = 0
  /\ tk = [a \in Agents |-> Idle]
  /\ sync = TRUE

\* Spec starts after time 0: both agents have performed h1 at time 0
\* (the hole "performed" leaves a2 without a behaviour at time 0)
Init ==
  \E hole \in Holes, profile \in Profiles, stored \in BOOLEAN :
    /\ hole # "none" => profile = "two"
    /\ Setup(hole, profile, stored)
    /\ performedMap =
         [a \in Agents |->
            IF a = "a2" /\ hole = "performed" THEN EmptyMap ELSE (0 :> "h1")]

(***************************************************************************)
(* The engine operations, called directly                                  *)
(***************************************************************************)
\* the candidate lists given to perform: the lists of at most MaxCand
\* distinct behaviours, in every order
RECURSIVE ListsUpTo(_, _)
ListsUpTo(S, n) ==
  IF n = 0 THEN {<< >>}
  ELSE LET shorter == ListsUpTo(S, n - 1) IN
       shorter \cup
         {Append(q, x) : <<q, x>> \in
            {p \in shorter \X S : \A k \in 1 .. Len(p[1]) : p[1][k] # p[2]}}

CandLists == ListsUpTo(Behaviours, MaxCand)

UpdateActivation(a, t, b) ==
  /\ ncalls < MaxCalls
  /\ activationMap' = [activationMap EXCEPT ![a] = updateActivation(a, t, b)]
  /\ last' = [op |-> "updateActivation", a |-> a, t |-> t, b |-> b, bs |-> << >>,
              out |-> IF updateActivationOk(a, t, b) THEN "ok" ELSE "NotFound",
              old |-> activationMap[a]]
  /\ ncalls' = ncalls + 1
  /\ UNCHANGED <<performedMap, friends, timeDeltaMap, beliefRel, obsRel, perfRel,
                 tk, sync>>

Perform(a, t, bs) ==
  /\ ncalls < MaxCalls
  /\ IF performOk(a, t, bs)
     THEN \E beh \in performChoice(a, t, bs) :
            performedMap' = [performedMap EXCEPT ![a] = perform(a, t, beh)]
     ELSE performedMap' = [performedMap EXCEPT ![a] = performThrown(a, t, bs)]
  /\ last' = [op |-> "perform", a |-> a, t |-> t, b |-> "b1", bs |-> bs,
              out |-> IF performOk(a, t, bs) THEN "ok" ELSE "NotFound",
              old |-> performedMap[a]]
  /\ ncalls' = ncalls + 1
  /\ UNCHANGED <<activationMap, friends, timeDeltaMap, beliefRel, obsRel, perfRel,
                 tk, sync>>

Next ==
  \/ \E a \in Agents, t \in Times, b \in Beliefs : UpdateActivation(a, t, b)
  \/ \E a \in Agents, t \in Times, bs \in CandLists : Perform(a, t, bs)

Spec == Init /\ [][Next]_vars

(***************************************************************************)
(* IAgent::tick, one step per call it makes, and a driver that lets the    *)
(* agents tick for the times 0, 1, ... each at its own pace                *)
(***************************************************************************)
MaxBels == 2      \* longest belief list given to tick

\* InitTick: nobody has performed anything yet
InitTick ==
  \E hole \in Holes \ {"performed"}, profile \in {"one", "two"} :
    /\ hole # "none" => profile = "one"
    /\ Setup(hole, profile, FALSE)
    /\ performedMap = [a \in Agents |-> EmptyMap]

\* the lists the driver passes: at time 0 the activations are the ones the
\* constructor was given and no belief is updated
TickBehs(t) == IF t = 0 THEN {<<"h1", "h2">>} ELSE {<<"h1", "h2", "h3">>}
TickBels(t) == IF t = 0 THEN {<< >>} ELSE ListsUpTo(Beliefs, MaxBels)

\* every agent's tick for time t has returned
AllPerformed(t) ==
  \A a \in Agents : tk[a].t > t \/ (tk[a].t = t /\ tk[a].pc = "done")

\* Mutant: a failed update is caught inside the loop and the tick goes on
tickAfterUpdate_swallow(ok, i, n) == IF i < n THEN "update" ELSE "perform"

\* where tick is after updateActivation(t, bels[i]) returned (ok) or threw:
\* the exception leaves the loop and tick
tickAfterUpdate(ok, i, n) ==
  IF ~ ok THEN "thrown" ELSE IF i < n THEN "update" ELSE "perform"

\* tick is entered: the previous call of this agent has returned
TickBegin(a, t, behs, bels) ==
  /\ tk[a].pc \in {"idle", "done"}
  /\ t = tk[a].t + 1
  /\ tk' = [tk EXCEPT ![a] =
              [pc |-> IF bels = << >> THEN "perform" ELSE "update",
               t |-> t, behs |-> behs, bels |-> bels, i |-> 1,
               nok |-> 0, where |-> "none", missed |-> FALSE,
               preAct |-> activationMap[a], prePerf |-> performedMap[a]]]
  /\ UNCHANGED <<activationMap, performedMap, friends, timeDeltaMap, beliefRel,
                 obsRel, perfRel, last, ncalls, sync>>

\* for (bel : bels) updateActivation(t, bel): one iteration
TickUpdate(a) ==
  LET c == tk[a]
      b == c.bels[c.i]
      ok == updateActivationOk(a, c.t, b)
  IN /\ c.pc = "update"
     /\ activationMap' = [activationMap EXCEPT ![a] = updateActivation(a, c.t, b)]
     /\ tk' = [tk EXCEPT ![a] =
                 [c EXCEPT !.pc = tickAfterUpdate(ok, c.i, Len(c.bels)),
                           !.i = c.i + 1,
                           !.nok = IF ok THEN c.nok + 1 ELSE c.nok,
                           !.where = IF ok THEN c.where ELSE "update",
                           !.missed = c.missed \/
                                      (~ ok /\ performedMissing(a, previous(c.t)))]]
     /\ sync' = (sync /\ AllPerformed(c.t - 1))
     /\ UNCHANGED <<performedMap, friends, timeDeltaMap, beliefRel, obsRel,
                    perfRel, last, ncalls>>

\* perform(t, behs), after the loop
TickPerform(a) ==
  LET c == tk[a]
      ok == performOk(a, c.t, c.behs)
  IN /\ c.pc = "perform"
     /\ IF ok
        THEN \E beh \in performChoice(a, c.t, c.behs) :
               performedMap' = [performedMap EXCEPT ![a] = perform(a, c.t, beh)]
        ELSE performedMap' = [performedMap EXCEPT ![a] = performThrown(a, c.t, c.behs)]
     /\ tk' = [tk EXCEPT ![a] =
                 [c EXCEPT !.pc = IF ok THEN "done" ELSE "thrown",
                           !.where = IF ok THEN c.where ELSE "perform"]]
     /\ UNCHANGED <<activationMap, friends, timeDeltaMap, beliefRel, obsRel,
                    perfRel, last, ncalls, sync>>

NextTick ==
  \/ \E a \in Agents, t \in Times :
       \E behs \in TickBehs(t), bels \in TickBels(t) : TickBegin(a, t, behs, bels)
  \/ \E a \in Agents : TickUpdate(a)
  \/ \E a \in Agents : TickPerform(a)

SpecTick == InitTick /\ [][NextTick]_vars

(***************************************************************************)
(* The getters, the setters and the test hook _addPerformed, called one    *)
(* after another on agent a1 and on belief b2, together with the two       *)
(* engine operations                                                       *)
(***************************************************************************)
MaxOps == 2       \* calls in one run of SpecApi

\* the values handed to the setters: each differs from some value set up
Weights == {0, -Scale}

\* the agent the calls are made on; a2 is its friend
ApiAgents == {"a1"}

\* the belief whose tables the calls set
ApiBeliefs == {"b2"}

\* the candidate lists handed to perform
ApiCands == {<< >>, <<"h2", "h1">>}

\* Mutant: the lookup is made with operator[], which inserts the
\* value-initialised d under a missing key
at_subscript(m, k, d) == emplace(m, k, d)

\* the map m after m.at(k): at() throws on a missing key and never inserts
\* (d is what operator[] would have inserted)
at(m, k, d) == m

\* Mutant: the setter inserts with emplace, which keeps an existing entry
setFriendWeight_emplace(a, a2, w) == emplace(friends[a], a2, w)

\* Agent::setFriendWeight, Agent::setTimeDelta: the map after the call
setFriendWeight(a, a2, w) == insert_or_assign(friends[a], a2, w)
setTimeDelta(a, b, td) == insert_or_assign(timeDeltaMap[a], b, td)

\* the setters of Belief: the table after the call
setBeliefRelationship(b, b2, w) == insert_or_assign(beliefRel[b], b2, w)
setObservedBehaviourRelationship(b, beh, w) == insert_or_assign(obsRel[b], beh, w)
setPerformingBehaviourRelationship(b, beh, w) == insert_or_assign(perfRel[b], beh, w)

\* Agent::_addPerformed: the performed record after the call
_addPerformed(a, t, beh) == insert_or_assign(performedMap[a], t, beh)

\* a1 is newly constructed and set up, it has performed nothing; its friend
\* a2 has performed h1 at time 0
InitApi ==
  \E hole \in {"none", "timeDelta", "activation"} :
    /\ Setup(hole, "two", FALSE)
    /\ performedMap = [a \in Agents |-> IF a = "a2" THEN (0 :> "h1") ELSE EmptyMap]

\* last, for the calls of this section: x is the second key of the call (a
\* friend, a belief or a behaviour), w the value set or returned, old the
\* map the call may write as it was before the call
ApiCall == [op |-> "none", a |-> "a1", t |-> 0, b |-> "b1", bs |-> << >>,
            out |-> "ok", old |-> EmptyMap, x |-> "none", w |-> 0]

Returned(ok) == IF ok THEN "ok" ELSE "NotFound"

Called(call) ==
  /\ ncalls < MaxOps
  /\ last' = call
  /\ ncalls' = ncalls + 1
  /\ UNCHANGED <<tk, sync>>

\* Agent::activation(t, b): activationMap.at(t).at(b)
Activation(a, t, b) ==
  LET m == activationMap[a]
      ok == activationOk(a, t, b)
  IN /\ Called([ApiCall EXCEPT !.op = "activation", !.a = a, !.t = t, !.b = b,
                               !.out = Returned(ok),
                               !.w = IF ok THEN activation(a, t, b) ELSE 0])
     /\ activationMap' = [activationMap EXCEPT ![a] =
          IF t \in DOMAIN m
          THEN [at(m, t, EmptyMap) EXCEPT ![t] = at(m[t], b, 0)]
          ELSE at(m, t, EmptyMap)]
     /\ UNCHANGED <<performedMap, friends, timeDeltaMap, beliefRel, obsRel, perfRel>>

\* Agent::performed(t): performedMap.at(t)
Performed(a, t) ==
  LET ok == performedOk(a, t)
  IN /\ Called([ApiCall EXCEPT !.op = "performed", !.a = a, !.t = t,
                               !.out = Returned(ok),
                               !.x = IF ok THEN performed(a, t) ELSE "none"])
     /\ performedMap' = [performedMap EXCEPT ![a] = at(@, t, nullptr)]
     /\ UNCHANGED <<activationMap, friends, timeDeltaMap, beliefRel, obsRel, perfRel>>

\* Agent::friendWeight(a2): friends.at(a2)
FriendWeight(a, a2) ==
  LET ok == friendWeightOk(a, a2)
  IN /\ Called([ApiCall EXCEPT !.op = "friendWeight", !.a = a, !.x = a2,
                               !.out = Returned(ok),
                               !.w = IF ok THEN friendWeight(a, a2) ELSE 0])
     /\ friends' = [friends EXCEPT ![a] = at(@, a2, 0)]
     /\ UNCHANGED <<activationMap, performedMap, timeDeltaMap, beliefRel, obsRel, perfRel>>

\* Agent::timeDelta(b): timeDeltaMap.at(b)
TimeDelta(a, b) ==
  LET ok == timeDeltaOk(a, b)
  IN /\ Called([ApiCall EXCEPT !.op = "timeDelta", !.a = a, !.b = b,
                               !.out = Returned(ok),
                               !.w = IF ok THEN timeDelta(a, b) ELSE 0])
     /\ timeDeltaMap' = [timeDeltaMap EXCEPT ![a] = at(@, b, 0)]
     /\ UNCHANGED <<activationMap, performedMap, friends, beliefRel, obsRel, perfRel>>

SetFriendWeight(a, a2, w) ==
  /\ Called([ApiCall EXCEPT !.op = "setFriendWeight", !.a = a, !.x = a2, !.w = w,
                            !.old = friends[a]])
  /\ friends' = [friends EXCEPT ![a] = setFriendWeight(a, a2, w)]
  /\ UNCHANGED <<activationMap, performedMap, timeDeltaMap, beliefRel, obsRel, perfRel>>

SetTimeDelta(a, b, td) ==
  /\ Called([ApiCall EXCEPT !.op = "setTimeDelta", !.a = a, !.x = b, !.w = td,
                            !.old = timeDeltaMap[a]])
  /\ timeDeltaMap' = [timeDeltaMap EXCEPT ![a] = setTimeDelta(a, b, td)]
  /\ UNCHANGED <<activationMap, performedMap, friends, beliefRel, obsRel, perfRel>>

SetBeliefRelationship(b, b2, w) ==
  /\ Called([ApiCall EXCEPT !.op = "setBeliefRelationship", !.b = b, !.x = b2, !.w = w,
                            !.old = beliefRel[b]])
  /\ beliefRel' = [beliefRel EXCEPT ![b] = setBeliefRelationship(b, b2, w)]
  /\ UNCHANGED <<activationMap, performedMap, friends, timeDeltaMap, obsRel, perfRel>>

SetObservedBehaviourRelationship(b, beh, w) ==
  /\ Called([ApiCall EXCEPT !.op = "setObservedBehaviourRelationship",
                            !.b = b, !.x = beh, !.w = w, !.old = obsRel[b]])
  /\ obsRel' = [obsRel EXCEPT ![b] = setObservedBehaviourRelationship(b, beh, w)]
  /\ UNCHANGED <<activationMap, performedMap, friends, timeDeltaMap, beliefRel, perfRel>>

SetPerformingBehaviourRelationship(b, beh, w) ==
  /\ Called([ApiCall EXCEPT !.op = "setPerformingBehaviourRelationship",
                            !.b = b, !.x = beh, !.w = w, !.old = perfRel[b]])
  /\ perfRel' = [perfRel EXCEPT ![b] = setPerformingBehaviourRelationship(b, beh, w)]
  /\ UNCHANGED <<activationMap, performedMap, friends, timeDeltaMap, beliefRel, obsRel>>

AddPerformed(a, t, beh) ==
  /\ Called([ApiCall EXCEPT !.op = "_addPerformed", !.a = a, !.t = t, !.x = beh,
                            !.old = performedMap[a]])
  /\ performedMap' = [performedMap EXCEPT ![a] = _addPerformed(a, t, beh)]
  /\ UNCHANGED <<activationMap, friends, timeDeltaMap, beliefRel, obsRel, perfRel>>

\* updateActivation and perform as in UpdateActivation and Perform, within
\* the budget of this section
ApiUpdateActivation(a, t, b) ==
  /\ Called([ApiCall EXCEPT !.op = "updateActivation", !.a = a, !.t = t, !.b = b,
                            !.out = Returned(updateActivationOk(a, t, b)),
                            !.old = activationMap[a]])
  /\ activationMap' = [activationMap EXCEPT ![a] = updateActivation(a, t, b)]
  /\ UNCHANGED <<performedMap, friends, timeDeltaMap, beliefRel, obsRel, perfRel>>

ApiPerform(a, t, bs) ==
  /\ Called([ApiCall EXCEPT !.op = "perform", !.a = a, !.t = t, !.bs = bs,
                            !.out = Returned(performOk(a, t, bs)),
                            !.old = performedMap[a]])
  /\ IF performOk(a, t, bs)
     THEN \E beh \in performChoice(a, t, bs) :
            performedMap' = [performedMap EXCEPT ![a] = perform(a, t, beh)]
     ELSE performedMap' = [performedMap EXCEPT ![a] = performThrown(a, t, bs)]
  /\ UNCHANGED <<activationMap, friends, timeDeltaMap, beliefRel, obsRel, perfRel>>

NextApi ==
  \/ \E a \in ApiAgents, t \in Times, b \in Beliefs : Activation(a, t, b)
  \/ \E a \in ApiAgents, t \in Times : Performed(a, t)
  \/ \E a \in ApiAgents, a2 \in Agents : FriendWeight(a, a2)
  \/ \E a \in ApiAgents, b \in Beliefs : TimeDelta(a, b)
  \/ \E a \in ApiAgents, a2 \in Agents, w \in Weights : SetFriendWeight(a, a2, w)
  \/ \E a \in ApiAgents, b \in Beliefs, td \in Weights : SetTimeDelta(a, b, td)
  \/ \E b \in ApiBeliefs, b2 \in Beliefs, w \in Weights : SetBeliefRelationship(b, b2, w)
  \/ \E b \in ApiBeliefs, beh \in Behaviours, w \in Weights :
       SetObservedBehaviourRelationship(b, beh, w)
  \/ \E b \in ApiBeliefs, beh \in Behaviours, w \in Weights :
       SetPerformingBehaviourRelationship(b, beh, w)
  \/ \E a \in ApiAgents, t \in Times, beh \in Behaviours : AddPerformed(a, t, beh)
  \/ \E a \in ApiAgents, t \in Times, b \in Beliefs : ApiUpdateActivation(a, t, b)
  \/ \E a \in ApiAgents, t \in Times, bs \in ApiCands : ApiPerform(a, t, bs)

SpecApi == InitApi /\ [][NextApi]_vars

(***************************************************************************)
(* Properties of the direct calls (checked under Spec)                     *)
(***************************************************************************)
IsUpdate == last.op = "updateActivation"
IsPerform == last.op = "perform"

\* the candidates of bs with utility > 0, by position
Positive(a, t, bs) == {i \in 1 .. Len(bs) : utility(a, bs[i], t) > 0}

\* the first position of bs whose utility is the maximum over bs
FirstMax(a, t, bs) ==
  CHOOSE i \in 1 .. Len(bs) :
    /\ \A j \in 1 .. Len(bs) : utility(a, bs[j], t) <= utility(a, bs[i], t)
    /\ \A j \in 1 .. i - 1 : utility(a, bs[j], t) < utility(a, bs[i], t)

\* C1: a call updateActivation(t, b) that returns leaves activation(t, b)
\* equal to timeDelta(b)*activation(t-1, b) + contextualise(b, t-1)*observed(b, t-1),
\* also when a value was already stored for (t, b).  (The call writes
\* nothing that the right-hand side reads, so the right-hand side is the
\* same before and after it.)
C1_UpdateStoresFormula ==
  (IsUpdate /\ last.out = "ok") =>
    /\ activationOk(last.a, last.t, last.b)
    /\ activation(last.a, last.t, last.b) = newActivation(last.a, last.t, last.b)

\* C2: perform(t, candidates) with an empty candidate list fails and leaves
\* the performed record as it was.
C2_EmptyPerformFails ==
  (IsPerform /\ last.bs = << >>) =>
    /\ last.out = "NotFound"
    /\ performedMap[last.a] = last.old

\* C4: when updateActivation(t, b) fails with NotFound, the agent's
\* activation record is exactly as before the call.
C4_FailedUpdateKeepsRecord ==
  (IsUpdate /\ ~ newActivationOk(last.a, last.t, last.b)) =>
    /\ last.out = "NotFound"
    /\ activationMap[last.a] = last.old

\* a failed update at a time with no sub-record, whose coefficient and
\* prior activation are defined: the failure is in contextualObserved
C4_Witness ==
  /\ IsUpdate /\ last.out = "NotFound"
  /\ timeDeltaOk(last.a, last.b)
  /\ activationOk(last.a, last.t - 1, last.b)
  /\ last.t \notin DOMAIN last.old

\* C5: when the utility of any candidate of perform(t, candidates) cannot
\* be computed, at whatever position, the call fails and the performed
\* record is unchanged.
C5_FailedPerformKeepsRecord ==
  (IsPerform /\ \E i \in 1 .. Len(last.bs) : ~ utilityOk(last.a, last.bs[i], last.t)) =>
    /\ last.out = "NotFound"
    /\ performedMap[last.a] = last.old

\* a failed perform whose first candidate has a utility, at a time for
\* which a behaviour was recorded before
C5_Witness ==
  /\ IsPerform /\ last.out = "NotFound"
  /\ Len(last.bs) >= 2
  /\ utilityOk(last.a, last.bs[1], last.t)
  /\ last.t \in DOMAIN last.old
  /\ performedOk(last.a, last.t)

C7_DrawFromPositive ==
  (IsPerform /\ last.out = "ok"
   /\ Cardinality(Positive(last.a, last.t, last.bs)) >= 2) =>
    /\ \E i \in Positive(last.a, last.t, last.bs) :
         performed(last.a, last.t) = last.bs[i]
    /\ performChoice(last.a, last.t, last.bs)
         = {last.bs[i] : i \in Positive(last.a, last.t, last.bs)}

\* two candidates are positive, one is not, and the recorded behaviour is
\* a positive one that is not the maximum
C7_Witness ==
  /\ IsPerform /\ last.out = "ok"
  /\ Cardinality(Positive(last.a, last.t, last.bs)) = 2
  /\ Len(last.bs) = 3
  /\ utility(last.a, last.bs[1], last.t) <= 0
  /\ performed(last.a, last.t) # last.bs[FirstMax(last.a, last.t, last.bs)]

(***************************************************************************)
(* Properties of tick (checked under SpecTick)                             *)
(***************************************************************************)
\* tick has left its loop over the beliefs without an exception
PastUpdates(a) == tk[a].pc \in {"perform", "done"} \/ tk[a].where = "perform"

\* C3: when tick fails with NotFound, in the update of a belief or inside
\* perform, the agent's activation record and performed record are the
\* same as when tick was called.
C3_FailedTickKeepsRecords ==
  \A a \in Agents :
    tk[a].pc = "thrown" =>
      /\ activationMap[a] = tk[a].preAct
      /\ performedMap[a] = tk[a].prePerf

\* C8: perform runs only after updateActivation has returned for every
\* belief of the list; when an update throws, tick ends there and records
\* no behaviour.
C8_PerformAfterAllUpdates ==
  \A a \in Agents :
    /\ PastUpdates(a) => tk[a].nok = Len(tk[a].bels)
    /\ tk[a].where = "update" =>
         /\ tk[a].pc = "thrown"
         /\ performedMap[a] = tk[a].prePerf

\* the second update of a tick threw
C8_Witness ==
  \E a \in Agents :
    /\ tk[a].pc = "thrown" /\ tk[a].where = "update"
    /\ tk[a].nok = 1 /\ Len(tk[a].bels) = 2

\* the sub-record of time t after the updates of tick(t, behs, bels), as a
\* function of the set of beliefs in bels: a value stored when tick was
\* called stays, every other belief of bels gets its new activation
TickExpected(a) ==
  LET c == tk[a]
      pre == IF c.t \in DOMAIN c.preAct THEN c.preAct[c.t] ELSE EmptyMap
      updated == {c.bels[k] : k \in 1 .. Len(c.bels)}
  IN [b \in DOMAIN pre \cup updated |->
        IF b \in DOMAIN pre THEN pre[b] ELSE newActivation(a, c.t, b)]

\* C9: the activations stored at t by the updates of tick(t, behs, bels),
\* which are all that the utilities of perform(t, behs) read besides the
\* relationship tables, depend on the set of beliefs in bels only, not on
\* their order.
C9_OrderOfBeliefs ==
  \A a \in Agents :
    (PastUpdates(a) /\ tk[a].bels # << >>) =>
      /\ tk[a].t \in DOMAIN activationMap[a]
      /\ activationMap[a][tk[a].t] = TickExpected(a)

\* a tick that updated b2 before b1 has returned
C9_Witness ==
  \E a \in Agents : tk[a].pc = "done" /\ tk[a].bels = <<"b2", "b1">>

\* C10: as long as no agent updates for time t before every agent's tick
\* for t - 1 has returned (sync), whatever the interleaving of the agents'
\* ticks, no update throws on a friend's missing performed behaviour and
\* every activation stored at a time t >= 1 is the new activation computed
\* from the records of t - 1.
C10_InterleavedTicks ==
  sync =>
    \A a \in Agents :
      /\ ~ tk[a].missed
      /\ \A t \in DOMAIN activationMap[a] \ {0} :
           \A b \in DOMAIN activationMap[a][t] :
             /\ newActivationOk(a, t, b)
             /\ activationMap[a][t][b] = newActivation(a, t, b)

\* a2's tick for time 1 has returned while a1 is between its two updates
\* for time 1
C10_Witness ==
  /\ sync
  /\ tk["a1"].t = 1 /\ tk["a1"].pc = "update" /\ tk["a1"].nok = 1
  /\ tk["a2"].t = 1 /\ tk["a2"].pc = "done" /\ tk["a2"].nok = 2

(***************************************************************************)
(* Properties of the getters, the setters and the test hook (checked       *)
(* under SpecApi)                                                          *)
(***************************************************************************)
\* the step is a call: every call of Spec and of SpecApi counts in ncalls
IsCall == ncalls' = ncalls + 1

\* call c is a lookup whose key is absent from the agent's record
Missing(c) ==
  CASE c.op = "activation"   -> ~ activationOk(c.a, c.t, c.b)
    [] c.op = "performed"    -> ~ performedOk(c.a, c.t)
    [] c.op = "friendWeight" -> ~ friendWeightOk(c.a, c.x)
    [] c.op = "timeDelta"    -> ~ timeDeltaOk(c.a, c.b)
    [] OTHER                 -> FALSE

\* C11: activation(t, b) for a time with no sub-record or for a belief
\* absent from the sub-record of t, performed(t) for a time with no
\* behaviour, friendWeight(a) for an unset friend and timeDelta(b) for an
\* unset belief fail with NotFound: they return no value and leave every
\* record as it was, no key is created.
C11_FailedLookupKeepsRecords ==
  [][(IsCall /\ Missing(last')) =>
       /\ last'.out = "NotFound"
       /\ UNCHANGED <<activationMap, performedMap, friends, timeDeltaMap,
                      beliefRel, obsRel, perfRel>>]_vars

\* after another call, activation(t, b) has failed for a belief that is
\* absent from the sub-record that the agent has for t
C11_Witness ==
  /\ ncalls = 2
  /\ last.op = "activation" /\ last.out = "NotFound"
  /\ last.t \in DOMAIN activationMap[last.a]
  /\ last.b \notin DOMAIN activationMap[last.a][last.t]

\* the five tables that have a setter, by the name of the setter: each maps
\* an owner (an agent or a belief) and a key to the value the getter reads
Tables ==
  [setFriendWeight |-> friends,
   setTimeDelta |-> timeDeltaMap,
   setBeliefRelationship |-> beliefRel,
   setObservedBehaviourRelationship |-> obsRel,
   setPerformingBehaviourRelationship |-> perfRel]

SetOps == DOMAIN Tables

Owner(c) == IF c.op \in {"setFriendWeight", "setTimeDelta"} THEN c.a ELSE c.b

Keys == Agents \cup Beliefs \cup Behaviours

\* the getter that reads what setter op writes
GetterOf(op) ==
  CASE op = "friendWeight" -> "setFriendWeight"
    [] op = "timeDelta"    -> "setTimeDelta"

\* C12: a set call makes the getter of its key return exactly the value
\* set, also when the key held another value, and leaves every other key
\* of every table as it was; no other call changes a table; friendWeight
\* and timeDelta return the value the table holds.  Hence a getter
\* returns the value of the last set on its key.
C12_LastSetWins ==
  [][IsCall =>
       LET c == last' IN
       /\ c.op \in SetOps =>
            /\ c.x \in DOMAIN Tables'[c.op][Owner(c)]
            /\ Tables'[c.op][Owner(c)][c.x] = c.w
            /\ \A op \in SetOps : \A own \in DOMAIN Tables[op] : \A k \in Keys :
                 <<op, own, k>> # <<c.op, Owner(c), c.x>> =>
                   /\ k \in DOMAIN Tables'[op][own] <=> k \in DOMAIN Tables[op][own]
                   /\ k \in DOMAIN Tables[op][own] =>
                        Tables'[op][own][k] = Tables[op][own][k]
       /\ c.op \notin SetOps => Tables' = Tables
       /\ (c.op \in {"friendWeight", "timeDelta"} /\ ~ Missing(c)) =>
            /\ c.out = "ok"
            /\ c.w = Tables[GetterOf(c.op)][c.a][IF c.op = "friendWeight" THEN c.x ELSE c.b]]_vars

\* the second of two sets on a key that was unset at first, with a value
\* other than the first; the friend set up at first keeps its weight
C12_Witness ==
  /\ ncalls = 2
  /\ last.op = "setFriendWeight"
  /\ last.x \notin DOMAIN InitFriends[last.a]
  /\ last.x \in DOMAIN last.old
  /\ last.old[last.x] # last.w
  /\ friendWeight(last.a, last.x) = last.w
  /\ \A k \in DOMAIN InitFriends[last.a] : friendWeight(last.a, k) = InitFriends[last.a][k]

\* the step completes a call that records a behaviour of agent a for time
\* t: perform(t, .), called directly or by tick, or _addPerformed(t, .)
Records(a, t) ==
  \/ /\ IsCall /\ last'.op \in {"perform", "_addPerformed"}
     /\ last'.a = a /\ last'.t = t /\ last'.out = "ok"
  \/ tk[a].pc = "perform" /\ tk[a].t = t /\ tk'[a].pc = "done"

\* C13: a newly constructed agent has performed nothing; performed(t)
\* becomes defined only by a call perform(t, .) that returns or by
\* _addPerformed(t, .), and holds one behaviour; such a call replaces the
\* behaviour recorded for t before; no other call, and no call for
\* another time, defines, changes or removes performed(t).
C13_PerformedRecord ==
  /\ \A a \in ApiAgents : performedMap[a] = EmptyMap
  /\ [][\A a \in Agents : \A t \in Times :
          /\ (performedOk(a, t)' /\ ~ performedOk(a, t)) => Records(a, t)
          /\ performedOk(a, t)' => performed(a, t)' \in Behaviours \cup {nullptr}
          /\ (performedOk(a, t) /\ ~ Records(a, t)) =>
               /\ performedOk(a, t)'
               /\ performed(a, t)' = performed(a, t)
          /\ (Records(a, t) /\ IsCall /\ last'.op = "perform") =>
               /\ performedOk(a, t)'
               /\ performed(a, t)' \in performChoice(a, t, last'.bs)
          /\ (Records(a, t) /\ IsCall /\ last'.op = "_addPerformed") =>
               /\ performedOk(a, t)'
               /\ performed(a, t)' = last'.x]_vars

\* perform(t, .) has replaced the behaviour that _addPerformed(t, .) had
\* recorded by another one
C13_Witness ==
  /\ ncalls = 2
  /\ last.op = "perform" /\ last.out = "ok" /\ last.bs # << >>
  /\ last.t \in DOMAIN last.old
  /\ performed(last.a, last.t) # last.old[last.t]

(***************************************************************************)
(* The frame of the engine operations (checked under Spec)                 *)
(***************************************************************************)
\* C14: updateActivation(t, b), when it returns, changes at most the
\* activation entry (t, b) of its agent: every other entry, of another
\* time, of another belief at t or of another agent, is defined as before
\* and holds the same value, no sub-record appears for another time, and
\* the performed record, the ties and the coefficients are unchanged.
\* perform(t, .), when it returns, changes only performed(t) of its agent:
\* the activation record, the ties, the coefficients and performed at
\* every other time are unchanged.  Neither changes a table of a belief.
C14_Frame ==
  [][(IsCall /\ last'.out = "ok" /\ last'.op \in {"updateActivation", "perform"}) =>
       LET c == last' IN
       /\ UNCHANGED <<friends, timeDeltaMap, beliefRel, obsRel, perfRel>>
       /\ c.op = "updateActivation" =>
            /\ UNCHANGED performedMap
            /\ \A a \in Agents :
                 DOMAIN activationMap'[a] \subseteq
                   DOMAIN activationMap[a] \cup (IF a = c.a THEN {c.t} ELSE {})
            /\ \A a \in Agents : \A t \in Times : \A b \in Beliefs :
                 <<a, t, b>> # <<c.a, c.t, c.b>> =>
                   /\ activationOk(a, t, b)' <=> activationOk(a, t, b)
                   /\ activationOk(a, t, b) => activation(a, t, b)' = activation(a, t, b)
       /\ c.op = "perform" =>
            /\ UNCHANGED activationMap
            /\ \A a \in Agents : \A t \in Times :
                 <<a, t>> # <<c.a, c.t>> =>
                   /\ performedOk(a, t)' <=> performedOk(a, t)
                   /\ performedOk(a, t) => performed(a, t)' = performed(a, t)]_vars

\* updateActivation(t, b) has returned for an agent whose sub-record of t
\* held another belief, which is still there with b
C14_Witness ==
  /\ IsUpdate /\ last.out = "ok"
  /\ last.t \in DOMAIN last.old
  /\ last.b \notin DOMAIN last.old[last.t]
  /\ DOMAIN activationMap[last.a][last.t] = DOMAIN last.old[last.t] \cup {last.b}
  /\ DOMAIN last.old[last.t] # {}

(***************************************************************************)
(* perform without a sub-record (checked under SpecTick, where perform is  *)
(* the last call of tick)                                                  *)
(***************************************************************************)
\* tick has called perform, which has returned or thrown
PerformCalled(a) == tk[a].pc \in {"done", "thrown"} /\ tk[a].where # "update"

\* C15: perform(t, candidates) with a candidate, on an agent that has no
\* activation sub-record for t, fails with NotFound and records no
\* behaviour; so tick(t, behaviours, beliefs) with no belief and with a
\* behaviour, at a time t for which the agent had no sub-record, fails
\* with NotFound and leaves both records as they were.
C15_PerformNeedsSubRecord ==
  \A a \in Agents :
    LET c == tk[a] IN
    /\ (PerformCalled(a) /\ c.behs # << >> /\ c.t \notin DOMAIN activationMap[a]) =>
         /\ c.pc = "thrown" /\ c.where = "perform"
         /\ performedMap[a] = c.prePerf
    /\ (/\ c.pc \in {"done", "thrown"}
        /\ c.bels = << >> /\ c.behs # << >> /\ c.t \notin DOMAIN c.preAct) =>
         /\ c.pc = "thrown" /\ c.where = "perform"
         /\ performedMap[a] = c.prePerf
         /\ activationMap[a] = c.preAct

\* an agent that has performed at time 0 was ticked for time 1 with no
\* belief, and the tick has thrown in perform
C15_Witness ==
  \E a \in Agents :
    /\ tk[a].pc = "thrown" /\ tk[a].where = "perform"
    /\ tk[a].t = 1 /\ tk[a].bels = << >> /\ tk[a].behs # << >>
    /\ tk[a].t \notin DOMAIN tk[a].preAct
    /\ performedOk(a, 0)

====
